---- MODULE Spec2Model ----
(***************************************************************************)
(* The process-execution engine of gigi (src/src/cmd.rs): one call of      *)
(* Cmd::run on the main thread, the child process it spawns, the two       *)
(* reader threads started by spawn_output_reader and the mpsc channel they *)
(* share with collect_output.                                              *)
(*                                                                         *)
(* Text is a sequence of characters (one-character strings).  A pipe holds *)
(* the complete lines the child has written and the reader has not yet     *)
(* taken; the child blocks when the pipe holds PipeCap lines.              *)
(*                                                                         *)
(* Spec covers the children whose output is text: every line they write is *)
(* valid UTF-8 and newline-terminated, so line.unwrap() (line 132) takes   *)
(* its Ok branch.  A spawn that fails is part of Spec (SpawnFail).         *)
(*                                                                         *)
(* DecodeSpec adds the children that write lines which are not UTF-8,      *)
(* FullSpec the builders with_title and with_current_dir, BuildSpec follows *)
(* Cmd::new and the builders up to spawn() for several programs and        *)
(* argument lists, SeqSpec lets one run follow another, TrimSpec reads     *)
(* CmdOutput::stdout() of collected buffers, and PartialSpec adds the      *)
(* children whose last text on a stream has no line end.                   *)
(*                                                                         *)
(* MessageSpec, BranchNameSpec and AuthorsSpec call the text functions of  *)
(* commit.rs, main.rs and authors.rs; FlowSpec follows the commands that   *)
(* squash and open_pr of main.rs issue, one Cmd::run per step.             *)
(***************************************************************************)
EXTENDS Integers, Sequences, FiniteSets, TLC

\* ------------------------------------------------------------------ bounds
\* Number of operations (line writes, stream closes) in a child's script.
MaxOps == 3
\* Number of Cmd::run calls the program makes one after the other (SeqSpec).
MaxRuns == 2
\* Number of lines, and of characters per line, in a collected buffer
\* (TrimSpec).
MaxLines == 2
MaxLineLen == 3
\* Numbers of one-byte and of two-byte characters in a commit message
\* (check_commit_message).
MaxNarrow == 72
MaxWide == 36
\* Number of characters in a commit message (branch_name_from_commit_message).
MaxMessageChars == 3
\* Number of lines in the output of git log (authors.rs).
MaxLogLines == 2
\* Lines an OS pipe holds before the child's write blocks.
PipeCap == 1

\* ------------------------------------------------------------- vocabulary
Streams == {"stdout", "stderr"}
NL == "\n"
\* Exit codes a child may end with (the engine does not interpret them).
ExitCodes == {0, 3}
\* Option<T>: None is the empty sequence, Some(x) is <<x>>.
None == <<>>
Some(x) == <<x>>

\* The text of the line written by the k-th operation of a script: lines of
\* one child are pairwise different, so order, loss and duplication show.
LineText(k) == [i \in 1..k |-> "x"]

Op(kind, s) == [op |-> kind, stream |-> s]
AllOps == {Op(k, s) : k \in {"write", "close"}, s \in Streams}

RECURSIVE SeqsUpTo(_, _)
SeqsUpTo(S, n) ==
    IF n = 0 THEN {<<>>}
    ELSE LET shorter == SeqsUpTo(S, n - 1)
         IN shorter \cup {Append(q, x) : q \in {r \in shorter : Len(r) = n - 1}, x \in S}

\* A child never writes to, or closes again, a stream it has closed.
ValidScript(sc) ==
    \A i \in 1..Len(sc) :
        sc[i].op = "close" =>
            \A j \in (i + 1)..Len(sc) : sc[j].stream # sc[i].stream

Scripts == {sc \in SeqsUpTo(AllOps, MaxOps) : ValidScript(sc)}

\* Children whose output on a stream may end without a newline: a
\* "write_part" puts text without a newline, and nothing more, on its stream.
PartOps == AllOps \cup {Op("write_part", s) : s \in Streams}
PartScripts ==
    {sc \in SeqsUpTo(PartOps, MaxOps) :
        /\ ValidScript(sc)
        /\ \E i \in 1..Len(sc) : sc[i].op = "write_part"
        /\ \A i \in 1..Len(sc) : sc[i].op = "write_part" =>
              \A j \in (i + 1)..Len(sc) :
                  sc[j].stream = sc[i].stream => sc[j].op = "close"}

\* A byte that occurs in no UTF-8 text, and the lines that carry none:
\* reader.lines() yields Ok(line) for these and Err(InvalidData) otherwise.
BadByte == "0xFF"
IsUtf8(line) == \A i \in 1..Len(line) : line[i] # BadByte
BadLineText(k) == Append(LineText(k), BadByte)

\* Children that also write lines which are not UTF-8.
DecodeOps == AllOps \cup {Op("write_bad", s) : s \in Streams}
DecodeScripts ==
    {sc \in SeqsUpTo(DecodeOps, MaxOps) :
        ValidScript(sc) /\ \E i \in 1..Len(sc) : sc[i].op = "write_bad"}

VARIABLES
    VERBOSE,        \* static VERBOSE: AtomicBool
    cmd,            \* the Cmd being built and run
    pc,             \* position of the main thread
    console,        \* what the parent has printed: <<[stream, what, text]>>
    child,          \* the spawned process: [state, script, idx, wopen, code]
    pipe,           \* pipe[s]: lines written by the child, not yet read
    rpc,            \* rpc[s]: position of the reader thread of stream s
    rline,          \* rline[s]: the line reader s holds between read and send
    chan,           \* the mpsc channel: <<[line, is_stdout]>>
    senders,        \* who holds a Sender of the channel
    rxAlive,        \* the Receiver has not been dropped
    output_stdout,  \* collect_output's accumulation buffers
    output_stderr,
    result,         \* Option<CmdOutput> returned by run
    waitCalls,      \* number of child.wait() calls made
    spawnCalls,     \* number of spawn() calls made by the current run
    runs,           \* number of Cmd::run calls that have returned before
    given,          \* the arguments of the latest Cmd::new call
    got,            \* Option<text>: what the caller read through stdout()
    wf,             \* the workflow main runs (open_pr or squash) and the repository
    fnArg,          \* the argument of a call of one of the text functions
    fnRet           \* Option: what that call returned

vars == <<VERBOSE, cmd, pc, console, child, pipe, rpc, rline, chan, senders,
          rxAlive, output_stdout, output_stderr, result, waitCalls,
          spawnCalls, runs, given, got, wf, fnArg, fnRet>>

mainVars == <<VERBOSE, cmd, pc, console>>
childVars == <<child, pipe>>
readerVars == <<rpc, rline>>
chanVars == <<chan, senders, rxAlive>>
collectVars == <<output_stdout, output_stderr>>
retVars == <<result, waitCalls>>
callVars == <<spawnCalls, runs, given, got, wf, fnArg, fnRet>>

\* ------------------------------------------------------------------- Cmd
\* Values the callers pass (src/src/main.rs, checkout.rs).
Names == {"git"}
ArgLists == {<<"status">>}
Dirs == {"/repo"}
Titles == {"Checking status"}

NoChild == [state |-> "none", script |-> <<>>, idx |-> 1,
            wopen |-> [s \in Streams |-> FALSE], code |-> 0]

NoGiven == [name |-> "", args |-> <<>>]

\* No text function is being called.
NoCall == [fn |-> "none"]

\* No workflow has been chosen yet.  head is the branch checked out in the
\* repository, log the commands issued so far with the branch checked out
\* when each was issued.
NoFlow == [command |-> "none", pc |-> "start", out |-> "running", dry_run |-> FALSE,
           clean |-> TRUE, head |-> "main", original |-> "main", default |-> "", exists |-> {},
           commit |-> "none", log |-> <<>>]

NoCmd == [name |-> "", args |-> <<>>, current_dir |-> None,
          hide_stdout |-> FALSE, hide_stderr |-> FALSE,
          env_vars |-> <<>>, title |-> None]

Init ==
    /\ VERBOSE = FALSE
    /\ cmd = NoCmd
    /\ pc = "main"
    /\ console = <<>>
    /\ child = NoChild
    /\ pipe = [s \in Streams |-> <<>>]
    /\ rpc = [s \in Streams |-> "none"]
    /\ rline = [s \in Streams |-> <<>>]
    /\ chan = <<>>
    /\ senders = {}
    /\ rxAlive = FALSE
    /\ output_stdout = <<>>
    /\ output_stderr = <<>>
    /\ result = None
    /\ waitCalls = 0
    /\ spawnCalls = 0
    /\ runs = 0
    /\ given = NoGiven
    /\ got = None
    /\ wf = NoFlow
    /\ fnArg = NoCall
    /\ fnRet = None

\* Variant: the flag is stored again between two commands.
SetVerbose_Anytime ==
    /\ pc \in {"main", "idle"}
    /\ \E v \in BOOLEAN : VERBOSE' = v
    /\ pc' = "idle"
    /\ UNCHANGED <<cmd, console, childVars, readerVars, chanVars, collectVars, retVars, callVars>>

\* main: cmd::set_verbose(args.verbose)
SetVerbose ==
    /\ pc = "main"
    /\ \E v \in BOOLEAN : VERBOSE' = v
    /\ pc' = "idle"
    /\ UNCHANGED <<cmd, console, childVars, readerVars, chanVars, collectVars, retVars, callVars>>

\* Variant: the constructor starts with stdout hidden.
NewCmd_HidesStdout(n, a) ==
    [name |-> n, args |-> a, current_dir |-> None,
     hide_stdout |-> TRUE, hide_stderr |-> FALSE,
     env_vars |-> <<>>, title |-> None]

\* Cmd::new, lines 62-74: the value constructed
NewCmd(n, a) ==
    [name |-> n, args |-> a, current_dir |-> None,
     hide_stdout |-> FALSE, hide_stderr |-> FALSE,
     env_vars |-> <<>>, title |-> None]

\* A caller's Cmd::new(n, a) with n and a drawn from the given sets.
CmdNewFrom(names, arglists) ==
    /\ pc = "idle"
    /\ \E n \in names, a \in arglists :
        /\ cmd' = NewCmd(n, a)
        /\ given' = [name |-> n, args |-> a]
    /\ pc' = "built"
    /\ UNCHANGED <<VERBOSE, console, childVars, readerVars, chanVars, collectVars, retVars,
                   spawnCalls, runs, got, wf, fnArg, fnRet>>

\* Cmd::new
CmdNew == CmdNewFrom(Names, ArgLists)

WithCurrentDir ==
    /\ pc = "built"
    /\ \E d \in Dirs : cmd' = [cmd EXCEPT !.current_dir = Some(d)]
    /\ UNCHANGED <<VERBOSE, pc, console, childVars, readerVars, chanVars, collectVars, retVars, callVars>>

HideStdout ==
    /\ pc = "built"
    /\ cmd' = [cmd EXCEPT !.hide_stdout = TRUE]
    /\ UNCHANGED <<VERBOSE, pc, console, childVars, readerVars, chanVars, collectVars, retVars, callVars>>

\* Variant: hide_stderr sets both flags.
HideStderr_AlsoHidesStdout ==
    /\ pc = "built"
    /\ cmd' = [cmd EXCEPT !.hide_stderr = TRUE, !.hide_stdout = TRUE]
    /\ UNCHANGED <<VERBOSE, pc, console, childVars, readerVars, chanVars, collectVars, retVars, callVars>>

HideStderr ==
    /\ pc = "built"
    /\ cmd' = [cmd EXCEPT !.hide_stderr = TRUE]
    /\ UNCHANGED <<VERBOSE, pc, console, childVars, readerVars, chanVars, collectVars, retVars, callVars>>

WithTitle ==
    /\ pc = "built"
    /\ \E t \in Titles : cmd' = [cmd EXCEPT !.title = Some(t)]
    /\ UNCHANGED <<VERBOSE, pc, console, childVars, readerVars, chanVars, collectVars, retVars, callVars>>

\* args.join(" ")
RECURSIVE Join(_, _)
Join(ws, sep) ==
    IF ws = <<>> THEN <<>>
    ELSE IF Len(ws) = 1 THEN <<ws[1]>>
    ELSE <<ws[1], sep>> \o Join(Tail(ws), sep)

\* Variant: the title is put in front of the synthesized form.
build_command_description_TitlePrefix(c) ==
    LET synth == <<"rocket", " ", c.name, " ">> \o Join(c.args, " ")
        base == IF c.title # None THEN <<c.title[1], " ">> \o synth ELSE synth
    IN  IF c.current_dir # None
        THEN base \o <<" ", "point_right", " ", c.current_dir[1]>>
        ELSE base

build_command_description(c) ==
    LET base == IF c.title # None THEN <<c.title[1]>>
                ELSE <<"rocket", " ", c.name, " ">> \o Join(c.args, " ")
    IN  IF c.current_dir # None
        THEN base \o <<" ", "point_right", " ", c.current_dir[1]>>
        ELSE base

is_verbose == VERBOSE

\* println!/eprintln!: the text and a newline on one console stream.  The
\* field what records which statement printed the entry ("description" for
\* line 162, "echo" for lines 145 and 151).
PrintLine(con, stream, what, text) ==
    Append(con, [stream |-> stream, what |-> what, text |-> text \o <<NL>>])

\* Variant: the description is printed without consulting is_verbose().
RunDescribe_IgnoresVerbose ==
    /\ pc = "built"
    /\ console' = PrintLine(console, "stdout", "description", build_command_description(cmd))
    /\ pc' = "spawn"
    /\ UNCHANGED <<VERBOSE, cmd, childVars, readerVars, chanVars, collectVars, retVars, callVars>>

\* run, lines 161-163
RunDescribe ==
    /\ pc = "built"
    /\ console' = IF is_verbose
                  THEN PrintLine(console, "stdout", "description", build_command_description(cmd))
                  ELSE console
    /\ pc' = "spawn"
    /\ UNCHANGED <<VERBOSE, cmd, childVars, readerVars, chanVars, collectVars, retVars, callVars>>

\* run, lines 165-171: the process starts with both streams piped
SpawnOk ==
    /\ pc = "spawn"
    /\ \E sc \in Scripts :
        child' = [state |-> "running", script |-> sc, idx |-> 1,
                  wopen |-> [s \in Streams |-> TRUE], code |-> 0]
    /\ pc' = "channel"
    /\ spawnCalls' = spawnCalls + 1
    /\ UNCHANGED <<VERBOSE, cmd, console, pipe, readerVars, chanVars, collectVars, retVars,
                   runs, given, got, wf, fnArg, fnRet>>

\* Variant: a failed spawn is turned into an empty CmdOutput.
SpawnFail_ReturnsOutput ==
    /\ pc = "spawn"
    /\ pc' = "returned"
    /\ spawnCalls' = spawnCalls + 1
    /\ result' = Some([status |-> 3, stdout |-> <<>>])
    /\ UNCHANGED <<VERBOSE, cmd, console, childVars, readerVars, chanVars, collectVars,
                   waitCalls, runs, given, got, wf, fnArg, fnRet>>

\* run, line 171: spawn() failed and unwrap panics on the main thread
SpawnFail ==
    /\ pc = "spawn"
    /\ pc' = "aborted"
    /\ spawnCalls' = spawnCalls + 1
    /\ UNCHANGED <<VERBOSE, cmd, console, childVars, readerVars, chanVars, collectVars, retVars,
                   runs, given, got, wf, fnArg, fnRet>>

\* run, lines 173-175
MakeChannel ==
    /\ pc = "channel"
    /\ chan' = <<>>
    /\ senders' = {"run"}
    /\ rxAlive' = TRUE
    /\ pc' = "launch_stdout"
    /\ UNCHANGED <<VERBOSE, cmd, console, childVars, readerVars, collectVars, retVars, callVars>>

\* run, line 177: the reader gets a clone of tx
SpawnReaderStdout ==
    /\ pc = "launch_stdout"
    /\ rpc' = [rpc EXCEPT !["stdout"] = "read"]
    /\ senders' = senders \cup {"stdout"}
    /\ pc' = "launch_stderr"
    /\ UNCHANGED <<VERBOSE, cmd, console, childVars, rline, chan, rxAlive, collectVars, retVars, callVars>>

\* Variant: stderr is read only once stdout has reached end-of-stream.
SpawnReaderStderr_AfterStdout ==
    /\ pc = "launch_stderr"
    /\ rpc["stdout"] = "done"
    /\ rpc' = [rpc EXCEPT !["stderr"] = "read"]
    /\ senders' = (senders \ {"run"}) \cup {"stderr"}
    /\ pc' = "collect"
    /\ output_stdout' = <<>>
    /\ output_stderr' = <<>>
    /\ UNCHANGED <<VERBOSE, cmd, console, childVars, rline, chan, rxAlive, retVars, callVars>>

\* Variant: the second reader gets tx.clone() too, run keeps tx.
SpawnReaderStderr_KeepsTx ==
    /\ pc = "launch_stderr"
    /\ rpc' = [rpc EXCEPT !["stderr"] = "read"]
    /\ senders' = senders \cup {"stderr"}
    /\ pc' = "collect"
    /\ output_stdout' = <<>>
    /\ output_stderr' = <<>>
    /\ UNCHANGED <<VERBOSE, cmd, console, childVars, rline, chan, rxAlive, retVars, callVars>>

\* Variant: collect_output goes on with the buffers it finds.
SpawnReaderStderr_KeepsBuffers ==
    /\ pc = "launch_stderr"
    /\ rpc' = [rpc EXCEPT !["stderr"] = "read"]
    /\ senders' = (senders \ {"run"}) \cup {"stderr"}
    /\ pc' = "collect"
    /\ UNCHANGED <<VERBOSE, cmd, console, childVars, rline, chan, rxAlive, collectVars, retVars, callVars>>

\* run, line 178: tx itself moves into the reader; run then enters
\* collect_output, which starts with two new empty Strings (lines 139-140)
SpawnReaderStderr ==
    /\ pc = "launch_stderr"
    /\ rpc' = [rpc EXCEPT !["stderr"] = "read"]
    /\ senders' = (senders \ {"run"}) \cup {"stderr"}
    /\ pc' = "collect"
    /\ output_stdout' = <<>>
    /\ output_stderr' = <<>>
    /\ UNCHANGED <<VERBOSE, cmd, console, childVars, rline, chan, rxAlive, retVars, callVars>>

\* ------------------------------------------------------------ the child
\* The read end of pipe s is gone: the thread that owned it has ended by a
\* panic or with the process.
ReadEndClosed(s) == rpc[s] \in {"panicked", "killed"}

ChildWrite ==
    /\ child.state = "running"
    /\ child.idx <= Len(child.script)
    /\ LET o == child.script[child.idx] IN
        /\ o.op = "write"
        /\ ~ReadEndClosed(o.stream)
        /\ Len(pipe[o.stream]) < PipeCap
        /\ pipe' = [pipe EXCEPT ![o.stream] = Append(@, LineText(child.idx))]
    /\ child' = [child EXCEPT !.idx = @ + 1]
    /\ UNCHANGED <<mainVars, readerVars, chanVars, collectVars, retVars, callVars>>

ChildClose ==
    /\ child.state = "running"
    /\ child.idx <= Len(child.script)
    /\ LET o == child.script[child.idx] IN
        /\ o.op = "close"
        /\ child' = [child EXCEPT !.idx = @ + 1, !.wopen[o.stream] = FALSE]
    /\ UNCHANGED <<mainVars, pipe, readerVars, chanVars, collectVars, retVars, callVars>>

ChildExit ==
    /\ child.state = "running"
    /\ child.idx > Len(child.script)
    /\ \E c \in ExitCodes :
        child' = [child EXCEPT !.state = "exited", !.code = c,
                               !.wopen = [s \in Streams |-> FALSE]]
    /\ UNCHANGED <<mainVars, pipe, readerVars, chanVars, collectVars, retVars, callVars>>

\* ------------------------------------------------- spawn_output_reader
\* The text in the pipe that no newline follows (the text of the k-th
\* operation has k characters).
IsFragment(text) ==
    /\ Len(text) \in 1..Len(child.script)
    /\ child.script[Len(text)].op = "write_part"

\* Variant: both readers are started with is_stdout = true.
ReaderTag_AlwaysStdout(s) == TRUE

ReaderTag(s) == s = "stdout"

\* Variant: the line is taken from the pipe and not sent.
ReaderRead_SkipsLine(s) ==
    /\ rpc[s] = "read"
    /\ pipe[s] # <<>>
    /\ IsUtf8(Head(pipe[s]))
    /\ IsFragment(Head(pipe[s])) => ~child.wopen[s]
    /\ pipe' = [pipe EXCEPT ![s] = Tail(@)]
    /\ UNCHANGED <<mainVars, child, readerVars, chanVars, collectVars, retVars, callVars>>

\* reader.lines() yields the next line of the pipe: the text up to a
\* newline, or at end-of-stream the text that is left
ReaderRead(s) ==
    /\ rpc[s] = "read"
    /\ pipe[s] # <<>>
    /\ IsUtf8(Head(pipe[s]))
    /\ IsFragment(Head(pipe[s])) => ~child.wopen[s]
    /\ rline' = [rline EXCEPT ![s] = Head(pipe[s])]
    /\ pipe' = [pipe EXCEPT ![s] = Tail(@)]
    /\ rpc' = [rpc EXCEPT ![s] = "send"]
    /\ UNCHANGED <<mainVars, child, chanVars, collectVars, retVars, callVars>>

\* Variant: the stderr reader sends only once the stdout reader has ended.
ReaderSend_StdoutFirst(s) ==
    /\ rpc[s] = "send"
    /\ rxAlive
    /\ s = "stderr" => rpc["stdout"] = "done"
    /\ chan' = Append(chan, [line |-> rline[s], is_stdout |-> ReaderTag(s)])
    /\ rline' = [rline EXCEPT ![s] = <<>>]
    /\ rpc' = [rpc EXCEPT ![s] = "read"]
    /\ UNCHANGED <<mainVars, childVars, senders, rxAlive, collectVars, retVars, callVars>>

\* tx.send((line, is_stdout)): the channel is unbounded, send does not block
ReaderSend(s) ==
    /\ rpc[s] = "send"
    /\ rxAlive
    /\ chan' = Append(chan, [line |-> rline[s], is_stdout |-> ReaderTag(s)])
    /\ rline' = [rline EXCEPT ![s] = <<>>]
    /\ rpc' = [rpc EXCEPT ![s] = "read"]
    /\ UNCHANGED <<mainVars, childVars, senders, rxAlive, collectVars, retVars, callVars>>

\* Variant: the thread ends without releasing its Sender.
ReaderEof_LeaksTx(s) ==
    /\ rpc[s] = "read"
    /\ pipe[s] = <<>>
    /\ ~child.wopen[s]
    /\ rpc' = [rpc EXCEPT ![s] = "done"]
    /\ UNCHANGED <<mainVars, childVars, rline, chanVars, collectVars, retVars, callVars>>

\* end of stream: the loop ends, the thread exits and its tx is dropped
ReaderEof(s) ==
    /\ rpc[s] = "read"
    /\ pipe[s] = <<>>
    /\ ~child.wopen[s]
    /\ rpc' = [rpc EXCEPT ![s] = "done"]
    /\ senders' = senders \ {s}
    /\ UNCHANGED <<mainVars, childVars, rline, chan, rxAlive, collectVars, retVars, callVars>>

\* ------------------------------------------------------ collect_output
\* Variant: the hide flag is used without its negation.
ShouldEcho_HideInverted(is_stdout) ==
    IF is_stdout THEN is_verbose /\ cmd.hide_stdout
                 ELSE is_verbose /\ cmd.hide_stderr

\* Variant: the hide flags are not consulted.
ShouldEcho_IgnoresHide(is_stdout) == is_verbose

ShouldEcho(is_stdout) ==
    IF is_stdout THEN is_verbose /\ ~cmd.hide_stdout
                 ELSE is_verbose /\ ~cmd.hide_stderr

\* Variant: println! and eprintln! exchanged.
EchoStream_Swapped(is_stdout) == IF is_stdout THEN "stderr" ELSE "stdout"

EchoStream(is_stdout) == IF is_stdout THEN "stdout" ELSE "stderr"

\* Variant: the line is inserted at the front of the buffer.
PushLine_Front(buf, line) == line \o <<NL>> \o buf

\* push_str(&line); push('\n')
PushLine(buf, line) == buf \o line \o <<NL>>

\* Variant: a line is accumulated only when it is echoed.
CollectRecv_KeepsEchoedOnly ==
    /\ pc = "collect"
    /\ chan # <<>>
    /\ LET ev == Head(chan) IN
        /\ console' = IF ShouldEcho(ev.is_stdout)
                      THEN PrintLine(console, EchoStream(ev.is_stdout), "echo", ev.line)
                      ELSE console
        /\ output_stdout' = IF ev.is_stdout /\ ShouldEcho(ev.is_stdout)
                            THEN PushLine(output_stdout, ev.line)
                            ELSE output_stdout
        /\ output_stderr' = IF ~ev.is_stdout /\ ShouldEcho(ev.is_stdout)
                            THEN PushLine(output_stderr, ev.line)
                            ELSE output_stderr
    /\ chan' = Tail(chan)
    /\ UNCHANGED <<VERBOSE, cmd, pc, childVars, readerVars, senders, rxAlive, retVars, callVars>>

\* one iteration of `for (line, is_stdout) in rx`
CollectRecv ==
    /\ pc = "collect"
    /\ chan # <<>>
    /\ LET ev == Head(chan) IN
        /\ console' = IF ShouldEcho(ev.is_stdout)
                      THEN PrintLine(console, EchoStream(ev.is_stdout), "echo", ev.line)
                      ELSE console
        /\ output_stdout' = IF ev.is_stdout THEN PushLine(output_stdout, ev.line)
                            ELSE output_stdout
        /\ output_stderr' = IF ev.is_stdout THEN output_stderr
                            ELSE PushLine(output_stderr, ev.line)
    /\ chan' = Tail(chan)
    /\ UNCHANGED <<VERBOSE, cmd, pc, childVars, readerVars, senders, rxAlive, retVars, callVars>>

\* Variant: the loop ends as soon as the channel is empty (try_iter).
CollectDone_TryRecv ==
    /\ pc = "collect"
    /\ chan = <<>>
    /\ rxAlive' = FALSE
    /\ pc' = "wait"
    /\ UNCHANGED <<VERBOSE, cmd, console, childVars, readerVars, chan, senders, collectVars, retVars, callVars>>

\* the iterator ends: the channel is empty and every Sender is dropped
CollectDone ==
    /\ pc = "collect"
    /\ chan = <<>>
    /\ senders = {}
    /\ rxAlive' = FALSE
    /\ pc' = "wait"
    /\ UNCHANGED <<VERBOSE, cmd, console, childVars, readerVars, chan, senders, collectVars, retVars, callVars>>

\* Variant: try_wait(), which does not block until the child has exited.
WaitChild_TryWait ==
    /\ pc = "wait"
    /\ waitCalls' = waitCalls + 1
    /\ result' = Some([status |-> child.code, stdout |-> output_stdout])
    /\ pc' = "returned"
    /\ UNCHANGED <<VERBOSE, cmd, console, childVars, readerVars, chanVars, collectVars, callVars>>

\* Variant: a non-zero exit sends run back to spawn the command again.
WaitChild_RetryOnFailure ==
    /\ pc = "wait"
    /\ child.state = "exited"
    /\ waitCalls' = waitCalls + 1
    /\ result' = IF child.code = 0
                 THEN Some([status |-> child.code, stdout |-> output_stdout])
                 ELSE result
    /\ pc' = IF child.code = 0 THEN "returned" ELSE "spawn"
    /\ child' = IF child.code = 0 THEN child ELSE NoChild
    /\ rpc' = IF child.code = 0 THEN rpc ELSE [s \in Streams |-> "none"]
    /\ UNCHANGED <<VERBOSE, cmd, console, pipe, rline, chanVars, collectVars, callVars>>

\* run, lines 181-186: child.wait() returns once the child has exited
WaitChild ==
    /\ pc = "wait"
    /\ child.state = "exited"
    /\ waitCalls' = waitCalls + 1
    /\ result' = Some([status |-> child.code, stdout |-> output_stdout])
    /\ pc' = "returned"
    /\ UNCHANGED <<VERBOSE, cmd, console, childVars, readerVars, chanVars, collectVars, callVars>>

Next ==
    \/ SetVerbose
    \/ CmdNew
    \/ HideStdout
    \/ HideStderr
    \/ RunDescribe
    \/ SpawnOk
    \/ SpawnFail
    \/ MakeChannel
    \/ SpawnReaderStdout
    \/ SpawnReaderStderr
    \/ ChildWrite
    \/ ChildClose
    \/ ChildExit
    \/ \E s \in Streams : ReaderRead(s)
    \/ \E s \in Streams : ReaderSend(s)
    \/ \E s \in Streams : ReaderEof(s)
    \/ CollectRecv
    \/ CollectDone
    \/ WaitChild

Spec == Init /\ [][Next]_vars

\* ------------------------------------------------------------- fairness
\* The operating system schedules the child and every thread of the parent:
\* a step of one of them that stays possible is eventually taken.
ChildStep == ChildWrite \/ ChildClose \/ ChildExit
ReaderStep(s) == ReaderRead(s) \/ ReaderSend(s) \/ ReaderEof(s)
RunStep ==
    MakeChannel \/ SpawnReaderStdout \/ SpawnReaderStderr \/ CollectRecv
    \/ CollectDone \/ WaitChild

Fairness ==
    /\ WF_vars(ChildStep)
    /\ \A s \in Streams : WF_vars(ReaderStep(s))
    /\ WF_vars(RunStep)

FairSpec == Spec /\ Fairness

\* ------------------------------------------------- one run after another
\* The caller drops the CmdOutput and the Cmd and goes on to its next
\* command (main.rs runs its commands one after the other on the main
\* thread).  console, spawnCalls and waitCalls describe the current run.
\* What the last collect_output accumulated is left as it was: the next run
\* works on the Strings its own collect_output makes.
RunAgain ==
    /\ pc = "returned"
    /\ runs + 1 < MaxRuns
    /\ runs' = runs + 1
    /\ pc' = "idle"
    /\ cmd' = NoCmd
    /\ console' = <<>>
    /\ child' = NoChild
    /\ pipe' = [s \in Streams |-> <<>>]
    /\ rpc' = [s \in Streams |-> "none"]
    /\ rline' = [s \in Streams |-> <<>>]
    /\ chan' = <<>>
    /\ senders' = {}
    /\ rxAlive' = FALSE
    /\ result' = None
    /\ waitCalls' = 0
    /\ spawnCalls' = 0
    /\ given' = NoGiven
    /\ got' = None
    /\ UNCHANGED <<VERBOSE, collectVars, wf, fnArg, fnRet>>

NextSeq == Next \/ RunAgain

SeqSpec == Init /\ [][NextSeq]_vars

\* ------------------------------------------------- CmdOutput::stdout()
\* char::is_whitespace, for the characters of the model
WhiteSpace == {" ", NL, "tab"}

RECURSIVE TrimStart(_)
TrimStart(t) ==
    IF t # <<>> /\ t[1] \in WhiteSpace THEN TrimStart(Tail(t)) ELSE t

RECURSIVE TrimEnd(_)
TrimEnd(t) ==
    IF t # <<>> /\ t[Len(t)] \in WhiteSpace THEN TrimEnd(SubSeq(t, 1, Len(t) - 1)) ELSE t

\* str::trim
Trim(t) == TrimEnd(TrimStart(t))

\* Variant: trim_end() in place of trim().
CmdOutput_stdout_TrimEnd(o) == TrimEnd(o.stdout)

\* CmdOutput::stdout, lines 37-39
CmdOutput_stdout(o) == Trim(o.stdout)

\* Lines a child may print: words, blanks inside and around them, and
\* empty lines.
OutputLines == SeqsUpTo({"x", " "}, MaxLineLen)

\* collect_output's stdout buffer after the lines ls arrived in this order
RECURSIVE Collected(_)
Collected(ls) ==
    IF ls = <<>> THEN <<>>
    ELSE PushLine(Collected(SubSeq(ls, 1, Len(ls) - 1)), ls[Len(ls)])

\* A run has returned a CmdOutput whose stdout is the buffer collected from
\* some lines (the unit test of lines 240-253 builds such a value directly).
InitOutput ==
    /\ VERBOSE = FALSE
    /\ cmd = NoCmd
    /\ pc = "returned"
    /\ console = <<>>
    /\ child = NoChild
    /\ pipe = [s \in Streams |-> <<>>]
    /\ rpc = [s \in Streams |-> "none"]
    /\ rline = [s \in Streams |-> <<>>]
    /\ chan = <<>>
    /\ senders = {}
    /\ rxAlive = FALSE
    /\ \E ls \in SeqsUpTo(OutputLines, MaxLines), c \in ExitCodes :
        /\ output_stdout = Collected(ls)
        /\ result = Some([status |-> c, stdout |-> Collected(ls)])
    /\ output_stderr = <<>>
    /\ waitCalls = 1
    /\ spawnCalls = 1
    /\ runs = 0
    /\ given = NoGiven
    /\ got = None
    /\ wf = NoFlow
    /\ fnArg = NoCall
    /\ fnRet = None

\* the caller reads output.stdout()
ReadStdout ==
    /\ pc = "returned"
    /\ result # None
    /\ got = None
    /\ got' = Some(CmdOutput_stdout(result[1]))
    /\ UNCHANGED <<mainVars, childVars, readerVars, chanVars, collectVars, retVars,
                   spawnCalls, runs, given, wf, fnArg, fnRet>>

NextTrim == ReadStdout

TrimSpec == InitOutput /\ [][NextTrim]_vars

\* ------------------------------------------- building and describing a Cmd
\* Programs and argument lists of other shapes (tests, lines 196-210): no
\* argument, one, and two in both orders.
BuildNames == {"git", "ls"}
BuildArgLists == {<<>>, <<"status">>, <<"status", "-s">>, <<"-s", "status">>}

CmdNewWide == CmdNewFrom(BuildNames, BuildArgLists)

\* A Cmd is constructed, configured by any chain of builder calls and run;
\* the run is followed up to the spawn() call.
NextBuild ==
    \/ SetVerbose
    \/ CmdNewWide
    \/ WithCurrentDir
    \/ HideStdout
    \/ HideStderr
    \/ WithTitle
    \/ RunDescribe
    \/ SpawnFail

BuildSpec == Init /\ [][NextBuild]_vars

\* A Cmd configured by any chain of the four builders and run to its end.
NextFull == Next \/ WithTitle \/ WithCurrentDir

FullSpec == Init /\ [][NextFull]_vars

\* --------------------------------------- output that ends without newline
\* run, lines 165-171, for a child whose output need not end with a newline
SpawnPart ==
    /\ pc = "spawn"
    /\ \E sc \in PartScripts :
        child' = [state |-> "running", script |-> sc, idx |-> 1,
                  wopen |-> [s \in Streams |-> TRUE], code |-> 0]
    /\ pc' = "channel"
    /\ spawnCalls' = spawnCalls + 1
    /\ UNCHANGED <<VERBOSE, cmd, console, pipe, readerVars, chanVars, collectVars, retVars,
                   runs, given, got, wf, fnArg, fnRet>>

ChildWritePart ==
    /\ child.state = "running"
    /\ child.idx <= Len(child.script)
    /\ LET o == child.script[child.idx] IN
        /\ o.op = "write_part"
        /\ ~ReadEndClosed(o.stream)
        /\ Len(pipe[o.stream]) < PipeCap
        /\ pipe' = [pipe EXCEPT ![o.stream] = Append(@, LineText(child.idx))]
    /\ child' = [child EXCEPT !.idx = @ + 1]
    /\ UNCHANGED <<mainVars, readerVars, chanVars, collectVars, retVars, callVars>>

NextPartial ==
    \/ Next
    \/ SpawnPart
    \/ ChildWritePart

PartialSpec == Init /\ [][NextPartial]_vars

\* ------------------------------------------------ lines that are not UTF-8
\* run, lines 165-171, for a child whose output is not all UTF-8
SpawnDecode ==
    /\ pc = "spawn"
    /\ \E sc \in DecodeScripts :
        child' = [state |-> "running", script |-> sc, idx |-> 1,
                  wopen |-> [s \in Streams |-> TRUE], code |-> 0]
    /\ pc' = "channel"
    /\ spawnCalls' = spawnCalls + 1
    /\ UNCHANGED <<VERBOSE, cmd, console, pipe, readerVars, chanVars, collectVars, retVars,
                   runs, given, got, wf, fnArg, fnRet>>

ChildWriteBad ==
    /\ child.state = "running"
    /\ child.idx <= Len(child.script)
    /\ LET o == child.script[child.idx] IN
        /\ o.op = "write_bad"
        /\ ~ReadEndClosed(o.stream)
        /\ Len(pipe[o.stream]) < PipeCap
        /\ pipe' = [pipe EXCEPT ![o.stream] = Append(@, BadLineText(child.idx))]
    /\ child' = [child EXCEPT !.idx = @ + 1]
    /\ UNCHANGED <<mainVars, readerVars, chanVars, collectVars, retVars, callVars>>

\* A write to a pipe without a read end raises SIGPIPE: a child with the
\* default disposition is killed, and wait() reports a status that is not
\* success.
ChildSigpipe ==
    /\ child.state = "running"
    /\ child.idx <= Len(child.script)
    /\ LET o == child.script[child.idx] IN
        /\ o.op \in {"write", "write_bad"}
        /\ ReadEndClosed(o.stream)
    /\ \E c \in ExitCodes \ {0} :
        child' = [child EXCEPT !.state = "exited", !.code = c,
                               !.wopen = [s \in Streams |-> FALSE]]
    /\ UNCHANGED <<mainVars, pipe, readerVars, chanVars, collectVars, retVars, callVars>>

\* A child that ignores SIGPIPE sees the write fail (EPIPE) and goes on.
ChildEpipe ==
    /\ child.state = "running"
    /\ child.idx <= Len(child.script)
    /\ LET o == child.script[child.idx] IN
        /\ o.op \in {"write", "write_bad"}
        /\ ReadEndClosed(o.stream)
    /\ child' = [child EXCEPT !.idx = @ + 1]
    /\ UNCHANGED <<mainVars, pipe, readerVars, chanVars, collectVars, retVars, callVars>>

\* line.unwrap() on Err, line 132, in a build that unwinds (the default): the
\* panic ends the reader thread only, since thread::spawn's JoinHandle is
\* dropped at line 135.  Unwinding drops the BufReader (the read end of the
\* pipe, with what it still holds) and the thread's Sender.
ReaderPanicUnwind(s) ==
    /\ rpc[s] = "read"
    /\ pipe[s] # <<>>
    /\ ~IsUtf8(Head(pipe[s]))
    /\ rpc' = [rpc EXCEPT ![s] = "panicked"]
    /\ pipe' = [pipe EXCEPT ![s] = <<>>]
    /\ senders' = senders \ {s}
    /\ UNCHANGED <<mainVars, child, rline, chan, rxAlive, collectVars, retVars, callVars>>

\* The same panic in a build with panic = "abort": the process ends, and
\* with it the main thread, the other reader and both read ends.
ReaderPanicAbort(s) ==
    /\ rpc[s] = "read"
    /\ pipe[s] # <<>>
    /\ ~IsUtf8(Head(pipe[s]))
    /\ pc' = "aborted"
    /\ rpc' = [t \in Streams |-> IF t = s THEN "panicked" ELSE "killed"]
    /\ rline' = [t \in Streams |-> <<>>]
    /\ pipe' = [t \in Streams |-> <<>>]
    /\ chan' = <<>>
    /\ senders' = {}
    /\ rxAlive' = FALSE
    /\ UNCHANGED <<VERBOSE, cmd, console, child, collectVars, retVars, callVars>>

NextDecode ==
    \/ Next
    \/ SpawnDecode
    \/ ChildWriteBad
    \/ ChildSigpipe
    \/ ChildEpipe
    \/ \E s \in Streams : ReaderPanicUnwind(s)
    \/ \E s \in Streams : ReaderPanicAbort(s)

DecodeSpec == Init /\ [][NextDecode]_vars

\* ------------------------------------------ the text functions, one call
\* The program is at its start and one of its text functions is called
\* with an argument out of args.
InitCall(args) ==
    /\ VERBOSE = FALSE
    /\ cmd = NoCmd
    /\ pc = "main"
    /\ console = <<>>
    /\ child = NoChild
    /\ pipe = [s \in Streams |-> <<>>]
    /\ rpc = [s \in Streams |-> "none"]
    /\ rline = [s \in Streams |-> <<>>]
    /\ chan = <<>>
    /\ senders = {}
    /\ rxAlive = FALSE
    /\ output_stdout = <<>>
    /\ output_stderr = <<>>
    /\ result = None
    /\ waitCalls = 0
    /\ spawnCalls = 0
    /\ runs = 0
    /\ given = NoGiven
    /\ got = None
    /\ wf = NoFlow
    /\ fnArg \in args
    /\ fnRet = None

\* The call returns r.
Return(r) ==
    /\ fnRet = None
    /\ fnRet' = Some(r)
    /\ UNCHANGED <<mainVars, childVars, readerVars, chanVars, collectVars, retVars,
                   spawnCalls, runs, given, got, wf, fnArg>>

Repeat(c, n) == [i \in 1..n |-> c]

\* ------------------------------------------------- check_commit_message
\* Bytes of the UTF-8 encoding of a character: "e_acute" stands for a
\* character of two bytes, every other character of the model has one.
Utf8Width(c) == IF c = "e_acute" THEN 2 ELSE 1

\* str::len: the length in bytes
RECURSIVE str_len(_)
str_len(t) == IF t = <<>> THEN 0 ELSE Utf8Width(Head(t)) + str_len(Tail(t))

MaxMessageSize == 70

\* Variant: characters are counted in place of bytes.
is_commit_message_valid_CountsChars(message) ==
    message # <<>> /\ Len(message) <= MaxMessageSize

\* is_commit_message_valid, commit.rs lines 231-233
is_commit_message_valid(message) ==
    message # <<>> /\ str_len(message) <= MaxMessageSize

\* check_commit_message, commit.rs lines 215-222
check_commit_message(message) ==
    IF is_commit_message_valid(message) THEN "Ok" ELSE "Err"

\* Messages of one-byte characters followed by two-byte characters.
CommitMessages ==
    {Repeat("a", i) \o Repeat("e_acute", j) : i \in 0..MaxNarrow, j \in 0..MaxWide}

InitMessage ==
    InitCall({[fn |-> "check_commit_message", message |-> m] : m \in CommitMessages})

CheckCommitMessage ==
    /\ fnArg.fn = "check_commit_message"
    /\ Return(check_commit_message(fnArg.message))

NextMessage == CheckCommitMessage

MessageSpec == InitMessage /\ [][NextMessage]_vars

\* --------------------------------------- branch_name_from_commit_message
\* str::replace(pattern, to) for a pattern that is a set of characters
RECURSIVE Replace(_, _, _)
Replace(t, pattern, to) ==
    IF t = <<>> THEN <<>>
    ELSE (IF Head(t) \in pattern THEN to ELSE <<Head(t)>>) \o Replace(Tail(t), pattern, to)

\* str::to_lowercase: "F" is the upper-case letter of the model
to_lowercase(t) == [i \in 1..Len(t) |-> IF t[i] = "F" THEN "f" ELSE t[i]]

\* Variant: the last replace, of spaces by hyphens, is missing.
branch_name_from_commit_message_KeepsSpaces(commit_message) ==
    LET replaced == Replace(Replace(commit_message, {"backtick", ":", ")", "dquote"}, <<>>),
                            {"(", "/", "."}, <<"-">>)
    IN  to_lowercase(Trim(replaced))

\* branch_name_from_commit_message, main.rs lines 433-439
branch_name_from_commit_message(commit_message) ==
    LET replaced == Replace(Replace(commit_message, {"backtick", ":", ")", "dquote"}, <<>>),
                            {"(", "/", "."}, <<"-">>)
        trimmed == to_lowercase(Trim(replaced))
    IN  Replace(trimmed, {" "}, <<"-">>)

\* The characters of a commit message: a letter in both cases, the
\* characters the function treats ("dquote" stands for the double quote), a
\* hyphen and two kinds of whitespace.
MessageChars == {"F", "f", " ", "tab", "-", "backtick", ":", ")", "dquote", "(", "/", "."}

InitBranchName ==
    InitCall({[fn |-> "branch_name_from_commit_message", message |-> m] :
                 m \in SeqsUpTo(MessageChars, MaxMessageChars)})

BranchNameFromCommitMessage ==
    /\ fnArg.fn = "branch_name_from_commit_message"
    /\ Return(branch_name_from_commit_message(fnArg.message))

NextBranchName == BranchNameFromCommitMessage

BranchNameSpec == InitBranchName /\ [][NextBranchName]_vars

\* ------------------------------------------------------------ authors.rs
\* str::rfind of a character: the last position that holds it, 0 for None
rfind(t, c) ==
    LET at == {i \in 1..Len(t) : t[i] = c}
    IN  IF at = {} THEN 0 ELSE CHOOSE i \in at : \A j \in at : j <= i

\* extract_email, authors.rs lines 8-16
extract_email(author) ==
    LET start == rfind(author, "<")
        end == rfind(author, ">")
    IN  IF start # 0 /\ end # 0 /\ start < end
        THEN Some(Trim(SubSeq(author, start + 1, end - 1)))
        ELSE None

\* str::lines: the text between line ends; a line end at the end of the
\* text starts no further line.
RECURSIVE lines(_)
lines(t) ==
    IF t = <<>> THEN <<>>
    ELSE LET ends == {i \in 1..Len(t) : t[i] = NL}
         IN  IF ends = {} THEN <<t>>
             ELSE LET n == CHOOSE i \in ends : \A j \in ends : i <= j
                  IN  <<SubSeq(t, 1, n - 1)>> \o lines(SubSeq(t, n + 1, Len(t)))

\* HashSet::insert; the set is the sequence of its entries, in the order
\* they came in.
HashSet_insert(authors, value) ==
    IF \E i \in 1..Len(authors) : authors[i] = value THEN authors
    ELSE Append(authors, value)

\* Variant: the emails are compared as they are written.
is_current_user_CaseSensitive(email, current_user_email) ==
    email = current_user_email

\* The comparison of lines 58 and 77
is_current_user(email, current_user_email) ==
    to_lowercase(email) = to_lowercase(current_user_email)

\* The loop of collect_authors_from_log, lines 54-62
RECURSIVE collect_authors_loop(_, _, _)
collect_authors_loop(ls, current_user_email, authors) ==
    IF ls = <<>> THEN authors
    ELSE LET author == Trim(Head(ls))
             email == extract_email(author)
             keep == /\ author # <<>>
                     /\ email # None
                     /\ ~is_current_user(email[1], current_user_email)
         IN  collect_authors_loop(Tail(ls), current_user_email,
                 IF keep THEN HashSet_insert(authors, author) ELSE authors)

\* collect_authors_from_log, authors.rs lines 52-64
collect_authors_from_log(authors_output, current_user_email) ==
    collect_authors_loop(lines(authors_output), current_user_email, <<>>)

\* "Co-authored-by:", the trailer key, is one character of the model; so is
\* the same key in lower case, which starts_with does not accept.
CoAuthoredBy == "Co-authored-by:"

\* The loop of parse_co_authors_from_messages, lines 71-81
RECURSIVE parse_co_authors_loop(_, _, _)
parse_co_authors_loop(ls, current_user_email, authors) ==
    IF ls = <<>> THEN authors
    ELSE LET line == Trim(Head(ls))
             starts == line # <<>> /\ Head(line) = CoAuthoredBy
             co_author == IF starts THEN Trim(Tail(line)) ELSE <<>>
             email == extract_email(co_author)
             keep == /\ starts
                     /\ co_author # <<>>
                     /\ email # None
                     /\ ~is_current_user(email[1], current_user_email)
         IN  parse_co_authors_loop(Tail(ls), current_user_email,
                 IF keep THEN HashSet_insert(authors, co_author) ELSE authors)

\* parse_co_authors_from_messages, authors.rs lines 66-82: the set it
\* leaves in *authors
parse_co_authors_from_messages(commit_messages, current_user_email, authors) ==
    parse_co_authors_loop(lines(commit_messages), current_user_email, authors)

\* The lines joined by line ends, as git prints them
RECURSIVE JoinLines(_)
JoinLines(ls) ==
    IF ls = <<>> THEN <<>>
    ELSE IF Len(ls) = 1 THEN ls[1]
    ELSE ls[1] \o <<NL>> \o JoinLines(Tail(ls))

\* The user's email is "f", in either case; "o" is somebody else's.
UserEmails == {<<"f">>, <<"F">>}

\* Lines of git log --format='%an <%ae>': empty, somebody else (also
\* between blanks, and under a second name), the user in both cases and
\* with blanks around the email, no email, brackets the wrong way round.
AuthorLines ==
    { <<>>,
      <<"o", " ", "<", "o", ">">>,
      <<" ", "o", " ", "<", "o", ">", " ">>,
      <<"f", " ", "<", "o", ">">>,
      <<"f", " ", "<", "f", ">">>,
      <<"F", " ", "<", "F", ">">>,
      <<"o", " ", "<", " ", "f", " ", ">">>,
      <<"o">>,
      <<"o", " ", ">", "o", "<">> }

\* Lines of git log --format=%B: trailers naming the authors above, a
\* trailer with blanks around it, an empty trailer, an author line
\* without the key and one with the key in lower case.
MessageLines ==
    {<<CoAuthoredBy, " ">> \o a : a \in AuthorLines \ {<<>>}}
        \cup { <<CoAuthoredBy>>,
               <<" ", CoAuthoredBy, " ", " ", "o", " ", "<", "o", ">", " ">>,
               <<"o", " ", "<", "o", ">">>,
               <<"co-authored-by:", " ", "o", " ", "<", "o", ">">> }

LogTexts == {JoinLines(ls) : ls \in SeqsUpTo(AuthorLines, MaxLogLines)}
MessageTexts == {JoinLines(ls) : ls \in SeqsUpTo(MessageLines, MaxLogLines)}

\* The sets collect_authors_from_log returns for the user u
CollectedAuthors(u) == {collect_authors_from_log(l, u) : l \in LogTexts}

\* The calls get_co_authors makes, lines 89-90: the second receives a set
\* the first returned for the same user.
InitAuthors ==
    InitCall({[fn |-> "collect_authors_from_log", authors_output |-> t,
               current_user_email |-> u] : t \in LogTexts, u \in UserEmails}
             \cup
             UNION {{[fn |-> "parse_co_authors_from_messages", commit_messages |-> t,
                      current_user_email |-> u, authors |-> a] :
                         t \in MessageTexts, a \in CollectedAuthors(u)} : u \in UserEmails})

CollectAuthorsFromLog ==
    /\ fnArg.fn = "collect_authors_from_log"
    /\ Return(collect_authors_from_log(fnArg.authors_output, fnArg.current_user_email))

ParseCoAuthorsFromMessages ==
    /\ fnArg.fn = "parse_co_authors_from_messages"
    /\ Return(parse_co_authors_from_messages(fnArg.commit_messages,
                                             fnArg.current_user_email, fnArg.authors))

NextAuthors == CollectAuthorsFromLog \/ ParseCoAuthorsFromMessages

AuthorsSpec == InitAuthors /\ [][NextAuthors]_vars

\* ------------------------------------------------ the workflows of main.rs
\* open_pr and squash issue their commands one after the other; here a
\* whole Cmd::run is one step, whose exit status (success or not) and output
\* are chosen by the world.  The repository has the branches "main" (its
\* default branch), "feat" and, once created, "new" (the branch open_pr
\* derives from the commit message).  A command that fails leaves the
\* checked-out branch as it was.
engineVars == <<VERBOSE, cmd, pc, console, child, pipe, rpc, rline, chan, senders,
                rxAlive, output_stdout, output_stderr, result, waitCalls,
                spawnCalls, runs, given, got, fnArg, fnRet>>

FlowCommands == {"open_pr", "squash"}
StartBranches == {"main", "feat"}

\* Cmd::new(..).run(): the command c is issued
Issue(w, c) == [w EXCEPT !.log = Append(@, [cmd |-> c, head |-> w.head])]
\* the workflow returns Err (anyhow::ensure!, bail!, ?)
Fail(w) == [w EXCEPT !.out = "err", !.pc = "done"]
Finish(w) == [w EXCEPT !.out = "ok", !.pc = "done"]
Goto(w, p) == [w EXCEPT !.pc = p]
At(p) == wf.out = "running" /\ wf.pc = p

\* Where a branch of the name open_pr derives from the commit message may
\* exist already.
BranchPlaces == {"local", "remote"}

\* main, lines 16-35: the subcommand and its options are parsed and the
\* workflow is entered; the user is on some branch of the repository.
FlowStart ==
    /\ At("start")
    /\ wf.command = "none"
    /\ \E c \in FlowCommands, h \in StartBranches, cl \in BOOLEAN :
         \E d \in (IF c = "squash" THEN BOOLEAN ELSE {FALSE}),
            ex \in (IF c = "open_pr" THEN SUBSET BranchPlaces ELSE {{}}) :
            wf' = [command |-> c, pc |-> IF c = "squash" THEN "sq_clean" ELSE "op_message",
                   out |-> "running", dry_run |-> d, clean |-> cl,
                   head |-> h, original |-> h, default |-> "", exists |-> ex,
                   commit |-> "none", log |-> <<>>]
    /\ UNCHANGED engineVars

\* default_branch, lines 82-98: the trimmed stdout of gh repo view, empty
\* when gh fails
default_branch(from, to) ==
    /\ At(from)
    /\ \E ok \in BOOLEAN :
         wf' = [Goto(Issue(wf, "gh_repo_view"), to) EXCEPT
                   !.default = IF ok THEN "main" ELSE ""]
    /\ UNCHANGED engineVars

\* git checkout <default branch>, its status not looked at (lines 136-138,
\* 319-321); it can succeed only when the name is that of a branch
checkout_default(from, to) ==
    /\ At(from)
    /\ \E ok \in BOOLEAN :
         wf' = [Goto(Issue(wf, "checkout"), to) EXCEPT
                   !.head = IF ok /\ wf.default = "main" THEN "main" ELSE @]
    /\ UNCHANGED engineVars

\* git pull, its status not looked at (lines 139, 322-324)
pull(from, to) ==
    /\ At(from)
    /\ wf' = Goto(Issue(wf, "pull"), to)
    /\ UNCHANGED engineVars

\* What git commit may do: commit ("ok"), exit with a non-success status
\* ("status"), or exit with success and say "nothing to commit" ("nothing").
CommitOutcomes == {"ok", "status", "nothing"}

\* Variant: a failed commit is not reported.
commit_IgnoresStatus(from, to) ==
    /\ At(from)
    /\ \E o \in CommitOutcomes :
         wf' = [Goto(Issue(wf, "commit"), to) EXCEPT !.commit = o]
    /\ UNCHANGED engineVars

\* commit, lines 225-242
commit(from, to) ==
    /\ At(from)
    /\ \E o \in CommitOutcomes :
         LET w == [Issue(wf, "commit") EXCEPT !.commit = o]
         IN  wf' = IF o = "status" THEN Fail(w)
                   ELSE IF o = "nothing" THEN Fail(w)
                   ELSE Goto(w, to)
    /\ UNCHANGED engineVars

\* current_branch, lines 100-106: the trimmed stdout of
\* git branch --show-current, empty when git fails
current_branch(w, ok) == IF ok THEN w.head ELSE ""

\* ensure_not_on_default_branch, lines 122-129
ensure_not_on_default_branch(from, to) ==
    /\ At(from)
    /\ \E ok \in BOOLEAN :
         wf' = IF current_branch(wf, ok) # wf.default
               THEN Goto(Issue(wf, "branch_show"), to)
               ELSE Fail(Issue(wf, "branch_show"))
    /\ UNCHANGED engineVars

\* ------------------------------------------------------------------ squash
\* squash, lines 245-246
SqClean ==
    /\ At("sq_clean")
    /\ wf' = IF wf.clean THEN Goto(wf, "sq_default") ELSE Fail(wf)
    /\ UNCHANGED engineVars

\* squash, line 247
SqDefaultBranch == default_branch("sq_default", "sq_title")

\* squash, line 248; pr_title, lines 58-80
SqPrTitle ==
    /\ At("sq_title")
    /\ \E ok \in BOOLEAN :
         LET w == Issue(Issue(wf, "branch_show"), "gh_pr_list")
         IN  wf' = IF ok THEN Goto(w, "sq_ensure") ELSE Fail(w)
    /\ UNCHANGED engineVars

\* squash, lines 249-252
SqEnsureFeature ==
    /\ At("sq_ensure")
    /\ wf' = IF wf.original # wf.default THEN Goto(wf, "sq_co_default") ELSE Fail(wf)
    /\ UNCHANGED engineVars

\* sync_feature_branch_with_default, lines 136-138
SqCheckoutDefault == checkout_default("sq_co_default", "sq_pull")

\* sync_feature_branch_with_default, line 139
SqPull == pull("sq_pull", "sq_co_feature")

\* sync_feature_branch_with_default, lines 140-142
SqCheckoutFeature ==
    /\ At("sq_co_feature")
    /\ \E ok \in BOOLEAN :
         wf' = [Goto(Issue(wf, "checkout"), "sq_merge") EXCEPT
                   !.head = IF ok THEN wf.original ELSE @]
    /\ UNCHANGED engineVars

\* sync_feature_branch_with_default, lines 143-151; git cannot merge a
\* branch whose name is empty
SqMerge ==
    /\ At("sq_merge")
    /\ \E ok \in BOOLEAN :
         wf' = IF ok /\ wf.default # ""
               THEN Goto(Issue(wf, "merge"), "sq_base")
               ELSE Fail(Issue(wf, "merge"))
    /\ UNCHANGED engineVars

\* compute_merge_base, lines 154-163
SqMergeBase ==
    /\ At("sq_base")
    /\ \E ok \in BOOLEAN :
         wf' = IF ok /\ wf.default # ""
               THEN Goto(Issue(wf, "merge_base"), "sq_authors")
               ELSE Fail(Issue(wf, "merge_base"))
    /\ UNCHANGED engineVars

\* The first n of the commands cs are issued.
RECURSIVE IssueAll(_, _, _)
IssueAll(w, cs, n) ==
    IF n = 0 THEN w ELSE Issue(IssueAll(w, cs, n - 1), cs[n])

\* authors::get_co_authors (authors.rs, lines 84-93): three commands, each
\* followed by ?, so the first that fails ends the workflow
SqCoAuthors ==
    /\ At("sq_authors")
    /\ LET cs == <<"log", "log", "config">> IN
         \E n \in 1..Len(cs), ok \in BOOLEAN :
            /\ ok => n = Len(cs)
            /\ wf' = IF ok THEN Goto(IssueAll(wf, cs, n), "sq_apply")
                     ELSE Fail(IssueAll(wf, cs, n))
    /\ UNCHANGED engineVars

\* squash, lines 260-268; print_dry_run_summary, lines 165-202
SqDryRunSummary ==
    /\ At("sq_apply")
    /\ wf.dry_run
    /\ \E ok \in BOOLEAN :
         wf' = IF ok THEN Finish(Issue(wf, "log")) ELSE Fail(Issue(wf, "log"))
    /\ UNCHANGED engineVars

\* perform_squash_and_push, lines 210-212
SqReset ==
    /\ At("sq_apply")
    /\ ~wf.dry_run
    /\ wf' = Goto(Issue(wf, "reset"), "sq_add")
    /\ UNCHANGED engineVars

\* perform_squash_and_push, lines 213-215
SqAdd ==
    /\ At("sq_add")
    /\ wf' = Goto(Issue(wf, "add"), "sq_commit")
    /\ UNCHANGED engineVars

\* perform_squash_and_push, line 216
SqCommit == commit("sq_commit", "sq_check")

\* perform_squash_and_push, line 218
SqEnsureNotOnDefault == ensure_not_on_default_branch("sq_check", "sq_push")

\* perform_squash_and_push, lines 219-221
SqPush ==
    /\ At("sq_push")
    /\ wf' = Goto(Issue(wf, "push"), "sq_view")
    /\ UNCHANGED engineVars

\* squash, line 272; view_pr_in_browser, lines 277-283
SqViewPr ==
    /\ At("sq_view")
    /\ wf' = Finish(Issue(wf, "gh_pr_view"))
    /\ UNCHANGED engineVars

\* ----------------------------------------------------------------- open_pr
\* open_pr, line 387; resolve_commit_message, lines 285-298
OpResolveMessage ==
    /\ At("op_message")
    /\ \E ok \in BOOLEAN :
         wf' = IF ok THEN Goto(wf, "op_default") ELSE Fail(wf)
    /\ UNCHANGED engineVars

\* open_pr, lines 388-389
OpDefaultBranch == default_branch("op_default", "op_exists")

\* branch_exists_locally and branch_exists_remotely, lines 108-120: the
\* stdout of git branch --list or git ls-remote is not empty; the exit status
\* is not looked at, and a command that fails prints nothing to stdout
branch_exists(w, place, ok) == ok /\ place \in w.exists

\* ensure_branch_does_not_exist, lines 300-312
ensure_branch_does_not_exist(w, list_ok, ls_remote_ok) ==
    LET w1 == Issue(w, "branch_list")
        w2 == Issue(w1, "ls_remote")
    IN  IF branch_exists(w, "local", list_ok) THEN Fail(w1)
        ELSE IF branch_exists(w, "remote", ls_remote_ok) THEN Fail(w2)
        ELSE Goto(w2, "op_co_default")

\* open_pr, line 391
OpEnsureBranchDoesNotExist ==
    /\ At("op_exists")
    /\ \E list_ok \in BOOLEAN, ls_remote_ok \in BOOLEAN :
         wf' = ensure_branch_does_not_exist(wf, list_ok, ls_remote_ok)
    /\ UNCHANGED engineVars

\* create_feature_branch_from_default, lines 319-321
OpCheckoutDefault == checkout_default("op_co_default", "op_pull")

\* create_feature_branch_from_default, lines 322-324
OpPull == pull("op_pull", "op_co_new")

\* create_feature_branch_from_default, lines 325-327: git checkout -b, its
\* status not looked at; git creates no branch of a name that exists
OpCheckoutNew ==
    /\ At("op_co_new")
    /\ \E ok \in BOOLEAN :
         wf' = [Goto(Issue(wf, "checkout_b"), "op_stage") EXCEPT
                   !.head = IF ok /\ "local" \notin wf.exists THEN "new" ELSE @]
    /\ UNCHANGED engineVars

\* stage_and_commit_changes, lines 335-340; run_git_add, lines 422-431 (its
\* assert panics when there is no file to add)
OpStage ==
    /\ At("op_stage")
    /\ \E files \in BOOLEAN :
         LET w == Issue(wf, "diff_cached")
         IN  wf' = IF files THEN Goto(Issue(w, "add"), "op_commit")
                   ELSE [w EXCEPT !.out = "panic", !.pc = "done"]
    /\ UNCHANGED engineVars

\* stage_and_commit_changes, line 342
OpCommit == commit("op_commit", "op_check")

\* open_pr, line 394
OpEnsureNotOnDefault == ensure_not_on_default_branch("op_check", "op_push")

\* push_branch_and_open_pr, lines 348-350
OpPush ==
    /\ At("op_push")
    /\ wf' = Goto(Issue(wf, "push"), "op_pr")
    /\ UNCHANGED engineVars

\* push_branch_and_open_pr, lines 352-377
OpOpenPr ==
    /\ At("op_pr")
    /\ \E pr_exists \in BOOLEAN :
         LET w == Issue(wf, "gh_pr_view")
         IN  wf' = Finish(Issue(w, IF pr_exists THEN "gh_pr_web" ELSE "gh_pr_create"))
    /\ UNCHANGED engineVars

\* cmd.rs, line 171: the command of the next step cannot be spawned and the
\* program ends
FlowSpawnFail ==
    /\ wf.out = "running"
    /\ wf.pc \notin {"start", "sq_clean", "sq_ensure", "op_message"}
    /\ wf' = [wf EXCEPT !.out = "panic", !.pc = "done"]
    /\ UNCHANGED engineVars

NextFlow ==
    \/ FlowStart
    \/ SqClean
    \/ SqDefaultBranch
    \/ SqPrTitle
    \/ SqEnsureFeature
    \/ SqCheckoutDefault
    \/ SqPull
    \/ SqCheckoutFeature
    \/ SqMerge
    \/ SqMergeBase
    \/ SqCoAuthors
    \/ SqDryRunSummary
    \/ SqReset
    \/ SqAdd
    \/ SqCommit
    \/ SqEnsureNotOnDefault
    \/ SqPush
    \/ SqViewPr
    \/ OpResolveMessage
    \/ OpDefaultBranch
    \/ OpEnsureBranchDoesNotExist
    \/ OpCheckoutDefault
    \/ OpPull
    \/ OpCheckoutNew
    \/ OpStage
    \/ OpCommit
    \/ OpEnsureNotOnDefault
    \/ OpPush
    \/ OpOpenPr
    \/ FlowSpawnFail

FlowSpec == Init /\ [][NextFlow]_vars

\* The commands that change the repository or the remote.
Changing == {"checkout", "checkout_b", "pull", "merge", "reset", "add", "commit", "push"}
Issued(c) == \E i \in 1..Len(wf.log) : wf.log[i].cmd = c

\* ---------------------------------------------------- derived quantities
\* The lines of a text buffer: the runs of characters that end in a newline
\* (and an unterminated rest, if any).
RECURSIVE SplitFrom(_, _)
SplitFrom(buf, cur) ==
    IF buf = <<>> THEN (IF cur = <<>> THEN <<>> ELSE <<cur>>)
    ELSE IF Head(buf) = NL THEN <<cur>> \o SplitFrom(Tail(buf), <<>>)
    ELSE SplitFrom(Tail(buf), Append(cur, Head(buf)))

SplitLines(buf) == SplitFrom(buf, <<>>)

\* The lines among the first n operations of the child's script that go to s.
RECURSIVE LinesUpTo(_, _)
LinesUpTo(s, n) ==
    IF n = 0 THEN <<>>
    ELSE LET o == child.script[n]
         IN  IF o.op = "write" /\ o.stream = s
             THEN Append(LinesUpTo(s, n - 1), LineText(n))
             ELSE LinesUpTo(s, n - 1)

ChildLines(s) == LinesUpTo(s, Len(child.script))
WrittenLines(s) == LinesUpTo(s, child.idx - 1)

\* The stream the child wrote a line to.
Origin(line) == child.script[Len(line)].stream

RECURSIVE EventLines(_, _)
EventLines(events, tag) ==
    IF events = <<>> THEN <<>>
    ELSE IF Head(events).is_stdout = tag
         THEN <<Head(events).line>> \o EventLines(Tail(events), tag)
         ELSE EventLines(Tail(events), tag)

\* The child lines echoed on one console stream, in console order.
RECURSIVE EchoedOn(_, _)
EchoedOn(con, stream) ==
    IF con = <<>> THEN <<>>
    ELSE IF Head(con).what = "echo" /\ Head(con).stream = stream
         THEN SplitLines(Head(con).text) \o EchoedOn(Tail(con), stream)
         ELSE EchoedOn(Tail(con), stream)

IsPrefix(p, q) == Len(p) <= Len(q) /\ SubSeq(q, 1, Len(p)) = p

Other(s) == IF s = "stdout" THEN "stderr" ELSE "stdout"
Hidden(s) == IF s = "stdout" THEN cmd.hide_stdout ELSE cmd.hide_stderr
Buffer(s) == IF s = "stdout" THEN output_stdout ELSE output_stderr
Held(s) == IF rpc[s] = "send" THEN <<rline[s]>> ELSE <<>>

\* The child is stopped in a write because the pipe of stream s is full.
ChildBlockedOn(s) ==
    /\ child.state = "running"
    /\ child.idx <= Len(child.script)
    /\ child.script[child.idx] = Op("write", s)
    /\ Len(pipe[s]) >= PipeCap

Drained ==
    /\ \A s \in Streams : rpc[s] = "done" /\ pipe[s] = <<>> /\ ~child.wopen[s]
    /\ senders = {}
    /\ chan = <<>>

\* ---------------------------------------------------------------- claims

\* C1: run waits on the child's exit status exactly once, and it reaches the
\* wait only after the collector has seen the channel closed: both readers
\* are at end-of-stream, have dropped their senders, and no pipe or channel
\* holds a line.  Before the return no wait has completed, after it one has.
C1_WaitOnceAfterDrain ==
    /\ pc \in {"wait", "returned"} => Drained
    /\ waitCalls = (IF pc = "returned" THEN 1 ELSE 0)

\* run is blocked in child.wait() on a child that still runs, after the child
\* closed both streams and the readers delivered its output.
C1_Witness ==
    /\ pc = "wait"
    /\ child.state = "running"
    /\ Len(SplitLines(output_stdout)) + Len(SplitLines(output_stderr)) >= 1

\* C2: a reader can always take the next line of its pipe and can always
\* send the line it holds, whatever the other reader, the collector and the
\* child are doing; and whenever the child is blocked on a full pipe, some
\* step of the parent towards emptying that pipe is possible (the reader's
\* read or send, or the launch of the readers), for either stream and for
\* every setting of the hide flags.
C2_ReadersNeverWait ==
    \A s \in Streams :
        /\ (rpc[s] = "read" /\ pipe[s] # <<>>) => ENABLED ReaderRead(s)
        /\ rpc[s] = "send" => ENABLED ReaderSend(s)
        /\ ChildBlockedOn(s) =>
              /\ rpc[s] # "done"
              /\ ENABLED (ReaderRead(s) \/ ReaderSend(s) \/ MakeChannel
                          \/ SpawnReaderStdout \/ SpawnReaderStderr)

\* The child is blocked on the full pipe of the hidden stderr while the
\* stdout reader waits on an empty pipe and the collector on an empty channel.
C2_Witness ==
    /\ ChildBlockedOn("stderr")
    /\ cmd.hide_stderr
    /\ rpc["stdout"] = "read" /\ pipe["stdout"] = <<>>
    /\ rpc["stderr"] = "read"
    /\ pc = "collect" /\ chan = <<>>

\* C3: under fair scheduling, once the child is spawned run eventually
\* returns a CmdOutput.
C3_RunReturns == (child.state = "running") ~> (pc = "returned" /\ result # None)

\* run has returned for a child that wrote more lines than a pipe holds to
\* one stream and nothing to the other.
C3_Witness ==
    /\ pc = "returned"
    /\ \E s \in Streams :
        /\ Len(ChildLines(s)) > PipeCap
        /\ ChildLines(Other(s)) = <<>>

\* C4: the lines accumulated for a stream are at every moment a prefix of
\* the lines the child writes to that stream, in the child's order, and once
\* the collector is done they are exactly those lines.
C4_StreamOrder ==
    \A s \in Streams :
        /\ IsPrefix(SplitLines(Buffer(s)), ChildLines(s))
        /\ pc \in {"wait", "returned"} => SplitLines(Buffer(s)) = ChildLines(s)

\* Two stdout lines were collected with a stderr line written between them.
C4_Witness ==
    /\ pc = "returned"
    /\ Len(child.script) = 3
    /\ child.script[1] = Op("write", "stdout")
    /\ child.script[2] = Op("write", "stderr")
    /\ child.script[3] = Op("write", "stdout")
    /\ Len(SplitLines(output_stdout)) = 2

\* C5: when run has returned a CmdOutput the child has exited and the
\* status returned is the child's exit code; no CmdOutput exists earlier.
C5_ReturnAfterExit ==
    /\ pc = "returned" => /\ child.state = "exited"
                          /\ result # None
                          /\ result[1].status = child.code
    /\ result # None => pc = "returned"

\* run returned the non-zero code of a child that had closed its streams
\* before exiting.
C5_Witness ==
    /\ pc = "returned"
    /\ result[1].status = 3
    /\ \E i \in 1..Len(child.script) : child.script[i].op = "close"

\* The line of a console entry (its text without the newline).
EntryLine(e) == SplitLines(e.text)[1]

\* C6: every line the child has written to a stream is in exactly one place:
\* still in the pipe, held by that stream's reader, in the channel under
\* that stream's tag, or in that stream's buffer, in the child's order; so
\* no line is lost, duplicated or put into the other buffer, every event in
\* the channel carries the tag of the pipe it was read from, and when run
\* returns its stdout holds all stdout lines and no stderr line.
C6_EachLineOnce ==
    /\ \A s \in Streams :
          SplitLines(Buffer(s)) \o EventLines(chan, s = "stdout") \o Held(s) \o pipe[s]
              = WrittenLines(s)
    /\ \A i \in DOMAIN chan :
          chan[i].is_stdout = (Origin(chan[i].line) = "stdout")
    /\ pc = "returned" => SplitLines(result[1].stdout) = ChildLines("stdout")

\* run returned for a child that wrote to both streams.
C6_Witness ==
    /\ pc = "returned"
    /\ ChildLines("stdout") # <<>>
    /\ ChildLines("stderr") # <<>>
    /\ Len(ChildLines("stdout")) + Len(ChildLines("stderr")) = 3

\* C7: once both readers are launched, a sender exists exactly as long as a
\* reader has not finished (run keeps none); the drain loop can end exactly
\* when both readers have finished and the channel is empty; and after it
\* has ended no reader holds a line.
C7_LoopEndsWithSenders ==
    /\ senders \subseteq
          {s \in Streams : rpc[s] \in {"read", "send"}}
              \cup (IF pc \in {"launch_stdout", "launch_stderr"} THEN {"run"} ELSE {})
    /\ pc \in {"collect", "wait", "returned"} =>
          (senders = {} <=> \A s \in Streams : rpc[s] = "done")
    /\ pc = "collect" =>
          (ENABLED CollectDone <=> (chan = <<>> /\ \A s \in Streams : rpc[s] = "done"))
    /\ pc \in {"wait", "returned"} =>
          \A s \in Streams : rpc[s] = "done" /\ rline[s] = <<>>

\* The collector faces an empty channel while one reader has finished and
\* the other still holds a line to send: the loop must not end here.
C7_Witness ==
    /\ pc = "collect"
    /\ chan = <<>>
    /\ rpc["stderr"] = "done"
    /\ rpc["stdout"] = "send"

\* C8: with verbosity on and no stream hidden, the stdout lines echoed on
\* the console's stdout are at every moment the lines accumulated for
\* stdout, in the same order, and when run returns both are the child's
\* stdout lines.
C8_EchoMatchesStdout ==
    (VERBOSE /\ ~cmd.hide_stdout /\ ~cmd.hide_stderr) =>
        /\ EchoedOn(console, "stdout") = SplitLines(output_stdout)
        /\ pc = "returned" =>
              /\ EchoedOn(console, "stdout") = ChildLines("stdout")
              /\ SplitLines(result[1].stdout) = ChildLines("stdout")

\* A verbose run with both streams visible returned two stdout lines and
\* one stderr line.
C8_Witness ==
    /\ pc = "returned"
    /\ VERBOSE /\ ~cmd.hide_stdout /\ ~cmd.hide_stderr
    /\ Len(ChildLines("stdout")) = 2
    /\ Len(ChildLines("stderr")) = 1

\* C9: when a stream is hidden no line of that stream is ever echoed, under
\* either verbosity, while its buffer (and for stdout the returned text)
\* still receives every line; hiding one stream does not suppress the echo
\* of the other.
C9_HideSuppressesEchoOnly ==
    \A s \in Streams :
        (Hidden(s) /\ pc \notin {"main", "idle", "built"}) =>
            /\ \A i \in DOMAIN console :
                  console[i].what = "echo" => Origin(EntryLine(console[i])) # s
            /\ pc \in {"wait", "returned"} => SplitLines(Buffer(s)) = ChildLines(s)
            /\ (pc = "returned" /\ s = "stdout") =>
                  SplitLines(result[1].stdout) = ChildLines("stdout")
            /\ (pc \in {"wait", "returned"} /\ VERBOSE /\ ~Hidden(Other(s))) =>
                  EchoedOn(console, Other(s)) = ChildLines(Other(s))

\* A verbose run with stdout hidden returned for a child that wrote to both
\* streams.
C9_Witness ==
    /\ pc = "returned"
    /\ VERBOSE /\ cmd.hide_stdout /\ ~cmd.hide_stderr
    /\ ChildLines("stdout") # <<>>
    /\ ChildLines("stderr") # <<>>

\* C10: an echoed line is on the console only if verbosity is on and its
\* stream is not hidden, and it is on the console stream of its tag; when
\* the collector is done every line of a stream that is verbose and not
\* hidden has been echoed there; with verbosity off the console holds
\* nothing, neither child output nor a description.
C10_EchoIffVerboseAndVisible ==
    /\ \A i \in DOMAIN console :
          /\ VERBOSE
          /\ console[i].what = "description" => console[i].stream = "stdout"
          /\ console[i].what = "echo" =>
                /\ console[i].stream = Origin(EntryLine(console[i]))
                /\ ~Hidden(console[i].stream)
    /\ pc \in {"wait", "returned"} =>
          \A s \in Streams :
              EchoedOn(console, s) = (IF VERBOSE /\ ~Hidden(s) THEN ChildLines(s) ELSE <<>>)
    /\ ~VERBOSE => console = <<>>

\* A verbose run with stderr hidden returned for a child that wrote to both
\* streams: the console holds the description and the stdout lines.
C10_Witness ==
    /\ pc = "returned"
    /\ VERBOSE /\ ~cmd.hide_stdout /\ cmd.hide_stderr
    /\ ChildLines("stdout") # <<>>
    /\ ChildLines("stderr") # <<>>
    /\ Len(console) = 1 + Len(ChildLines("stdout"))

\* C11: run calls spawn() once (never again after a non-zero exit), and a
\* child that has exited with a non-zero code does not abort the program:
\* the wait returns, and the CmdOutput returned carries that code and the
\* captured stdout lines.
C11_NonZeroExitIsData ==
    /\ spawnCalls = (IF pc \in {"main", "idle", "built", "spawn"} THEN 0 ELSE 1)
    /\ (child.state = "exited" /\ child.code # 0) =>
          /\ pc # "aborted"
          /\ pc = "wait" => ENABLED WaitChild
          /\ pc = "returned" =>
                /\ result # None
                /\ result[1].status = child.code
                /\ SplitLines(result[1].stdout) = ChildLines("stdout")

\* run returned the code 3 of a child together with the stdout line the
\* child wrote before it failed.
C11_Witness ==
    /\ pc = "returned"
    /\ child.code = 3
    /\ result[1].status = 3
    /\ Len(SplitLines(result[1].stdout)) >= 1
    /\ spawnCalls = 1

\* spawn() was called and no process exists.
SpawnFailed == spawnCalls >= 1 /\ child.state = "none"

\* C12: when the spawn fails the program aborts: no CmdOutput, no reader
\* thread, no channel, nothing collected, no wait, no further step; the
\* console holds the description line if verbosity is on and nothing else.
C12_SpawnFailureAborts ==
    SpawnFailed =>
        /\ pc = "aborted"
        /\ result = None
        /\ \A s \in Streams : rpc[s] = "none"
        /\ senders = {} /\ ~rxAlive /\ chan = <<>>
        /\ output_stdout = <<>> /\ output_stderr = <<>>
        /\ waitCalls = 0
        /\ ~ENABLED Next
        /\ IF VERBOSE
           THEN Len(console) = 1 /\ console[1].what = "description"
           ELSE console = <<>>

\* A verbose run whose spawn failed: only the description was printed.
C12_Witness ==
    /\ pc = "aborted"
    /\ SpawnFailed
    /\ VERBOSE
    /\ Len(console) = 1

\* C13: once a reader has met a line that is not valid UTF-8, Cmd::run
\* returns no CmdOutput to its caller.
C13_InvalidUtf8Aborts ==
    (\E s \in Streams : rpc[s] = "panicked") => (pc # "returned" /\ result = None)

\* The description a run has printed, without the newline println! adds.
PrintedDescription == SubSeq(console[1].text, 1, Len(console[1].text) - 1)

\* ws is the words of args with one space between neighbours.
IsSpaceJoined(ws, args) ==
    /\ Len(ws) = (IF args = <<>> THEN 0 ELSE 2 * Len(args) - 1)
    /\ \A i \in 1..Len(args) : ws[2 * i - 1] = args[i]
    /\ \A i \in 1..(Len(args) - 1) : ws[2 * i] = " "

\* C14: the printed description is the title when one was set, otherwise
\* the rocket sign, the program name and the space-joined arguments; it ends
\* with the working-directory suffix exactly when a directory was set; with
\* a title neither the rocket sign nor the program name appears in it.
C14_DescriptionForm ==
    (console # <<>> /\ console[1].what = "description") =>
        LET d == PrintedDescription
            hasDir == cmd.current_dir # None
            n == IF hasDir THEN Len(d) - 4 ELSE Len(d)
            head == SubSeq(d, 1, n)
        IN  /\ console[1].text[Len(console[1].text)] = NL
            /\ n >= 1
            /\ hasDir => SubSeq(d, n + 1, Len(d)) = <<" ", "point_right", " ", cmd.current_dir[1]>>
            /\ \A i \in 1..n : head[i] # "point_right"
            /\ cmd.title # None =>
                  /\ head = <<cmd.title[1]>>
                  /\ \A i \in 1..Len(d) : d[i] \notin {"rocket", cmd.name}
            /\ cmd.title = None =>
                  /\ n >= 4
                  /\ SubSeq(head, 1, 4) = <<"rocket", " ", cmd.name, " ">>
                  /\ IsSpaceJoined(SubSeq(head, 5, n), cmd.args)

C14_Witness ==
    /\ pc = "spawn" /\ VERBOSE /\ Len(console) = 1
    /\ cmd.title = None /\ cmd.current_dir # None /\ Len(cmd.args) = 2
    /\ PrintedDescription = <<"rocket", " ", "git", " ", "status", " ", "-s",
                               " ", "point_right", " ", "/repo">>

\* C19: the Cmd that Cmd::new returns holds the given program name and the
\* given arguments in the given order, no working directory, no title, both
\* streams visible and an empty environment overlay.
C19_NewStoresAndDefaults ==
    [][(pc = "idle" /\ pc' = "built") =>
          /\ cmd'.name = given'.name
          /\ Len(cmd'.args) = Len(given'.args)
          /\ \A i \in 1..Len(given'.args) : cmd'.args[i] = given'.args[i]
          /\ cmd'.current_dir = None
          /\ cmd'.title = None
          /\ cmd'.hide_stdout = FALSE
          /\ cmd'.hide_stderr = FALSE
          /\ cmd'.env_vars = <<>>]_vars

C19_Witness ==
    /\ pc = "built"
    /\ given = [name |-> "git", args |-> <<"status", "-s">>]
    /\ cmd.name = "git" /\ cmd.args = <<"status", "-s">>
    /\ cmd.current_dir = None /\ cmd.title = None
    /\ ~cmd.hide_stdout /\ ~cmd.hide_stderr

\* C15: nothing is printed before run starts; with verbosity on, from the
\* moment run is about to call spawn() the first entry of the console is the
\* description, printed once on stdout, while no process has been spawned,
\* and every later entry is an echoed child line; with verbosity off no
\* description is ever printed.
C15_DescriptionFirst ==
    /\ pc \in {"main", "idle", "built"} => console = <<>>
    /\ (VERBOSE /\ pc \notin {"main", "idle", "built"}) =>
          /\ console # <<>>
          /\ console[1] = [stream |-> "stdout", what |-> "description",
                           text |-> build_command_description(cmd) \o <<NL>>]
          /\ \A i \in 2..Len(console) : console[i].what = "echo"
          /\ spawnCalls = 0 => Len(console) = 1
    /\ ~VERBOSE => \A i \in 1..Len(console) : console[i].what # "description"

C15_Witness ==
    /\ VERBOSE /\ pc = "returned" /\ Len(console) >= 2
    /\ console[1].what = "description" /\ console[2].what = "echo"

\* C17: VERBOSE changes only on the step that leaves the start of the
\* program, which is taken once and before any Cmd exists or runs; from then
\* on, through every run of the program, it keeps its value, so whatever a
\* run prints is printed with the flag on.
C17_VerboseStable ==
    /\ [](pc = "main" =>
            (~VERBOSE /\ runs = 0 /\ spawnCalls = 0 /\ cmd = NoCmd /\ console = <<>>))
    /\ [][(pc # "main" => (pc' # "main" /\ VERBOSE' = VERBOSE))]_vars
    /\ [](console # <<>> => VERBOSE)

C17_Witness ==
    /\ runs = 1 /\ pc = "returned" /\ VERBOSE
    /\ \E i \in 1..Len(console) : console[i].what = "echo"

AllWhiteSpace(t) == \A i \in 1..Len(t) : t[i] \in {" ", NL}

\* C18: the stored stdout is the captured lines, each followed by a newline,
\* in arrival order; what stdout() returns is that text without its leading
\* and trailing whitespace: the stored text is whitespace, then the returned
\* text, then whitespace, and the returned text neither starts nor ends with
\* whitespace, so everything between its first and last visible character
\* is unchanged.
C18_StdoutTrimmed ==
    got # None =>
        LET buf == result[1].stdout
            t == got[1]
        IN  /\ buf = output_stdout
            /\ buf # <<>> => buf[Len(buf)] = NL
            /\ \E i \in 0..Len(buf) :
                  /\ i + Len(t) <= Len(buf)
                  /\ AllWhiteSpace(SubSeq(buf, 1, i))
                  /\ SubSeq(buf, i + 1, i + Len(t)) = t
                  /\ AllWhiteSpace(SubSeq(buf, i + Len(t) + 1, Len(buf)))
            /\ t # <<>> => (t[1] \notin {" ", NL} /\ t[Len(t)] \notin {" ", NL})

\* Two lines with blanks around and inside them: only the outer blanks and
\* the final newline go.
C18_Witness ==
    /\ got # None
    /\ result[1].stdout = <<" ", "x", " ", NL, "x", " ", "x", NL>>
    /\ got[1] = <<"x", " ", NL, "x", " ", "x">>

\* C20: a builder call changes its own field only (with_current_dir and
\* with_title set theirs to a value, hide_stdout and hide_stderr set theirs
\* to true), whatever calls came before; a hide call on a stream already
\* hidden changes nothing, no builder step makes a hidden stream visible,
\* and from the start of run to its end the Cmd stays as it was.
C20_BuildersOwnFieldOnly ==
    [][/\ WithCurrentDir =>
             (cmd'.current_dir # None /\ cmd' = [cmd EXCEPT !.current_dir = cmd'.current_dir])
       /\ WithTitle =>
             (cmd'.title # None /\ cmd' = [cmd EXCEPT !.title = cmd'.title])
       /\ HideStdout => cmd' = [cmd EXCEPT !.hide_stdout = TRUE]
       /\ HideStderr => cmd' = [cmd EXCEPT !.hide_stderr = TRUE]
       /\ (HideStdout /\ cmd.hide_stdout) => cmd' = cmd
       /\ (HideStderr /\ cmd.hide_stderr) => cmd' = cmd
       /\ pc = "built" =>
             /\ cmd.hide_stdout => cmd'.hide_stdout
             /\ cmd.hide_stderr => cmd'.hide_stderr
             /\ cmd'.name = cmd.name /\ cmd'.args = cmd.args
             /\ cmd'.env_vars = cmd.env_vars
       /\ (pc \notin {"main", "idle"} /\ ~(pc = "built" /\ pc' = "built")) => cmd' = cmd
      ]_vars

C20_Witness ==
    /\ pc = "returned" /\ result # None
    /\ cmd = [name |-> "git", args |-> <<"status">>, current_dir |-> Some("/repo"),
              hide_stdout |-> TRUE, hide_stderr |-> TRUE,
              env_vars |-> <<>>, title |-> Some("Checking status")]

\* C21: nothing orders the two streams.  When both readers hold a line to
\* send, either send may be the next one, and when both pipes hold a line
\* for a reader that is ready, either read may be the next one: which line
\* reaches the collector first is not decided by the child's write order.
C21_NoCrossStreamOrder ==
    /\ (\A s \in Streams : rpc[s] = "send") =>
          \A s \in Streams : ENABLED ReaderSend(s)
    /\ (\A s \in Streams : rpc[s] = "read" /\ pipe[s] # <<>>) =>
          \A s \in Streams : ENABLED ReaderRead(s)

\* The child wrote its stdout line first and its stderr line second, and
\* the stderr line was echoed before the stdout line.
C21_Witness ==
    /\ Len(child.script) >= 2
    /\ child.script[1] = Op("write", "stdout")
    /\ child.script[2] = Op("write", "stderr")
    /\ \E i, j \in 1..Len(console) :
          /\ i < j
          /\ console[i].what = "echo" /\ console[i].stream = "stderr"
          /\ EntryLine(console[i]) = LineText(2)
          /\ console[j].what = "echo" /\ console[j].stream = "stdout"
          /\ EntryLine(console[j]) = LineText(1)

\* The texts among the first n operations of the child's script that go to
\* s, newline-terminated or not.
RECURSIVE TextsUpTo(_, _)
TextsUpTo(s, n) ==
    IF n = 0 THEN <<>>
    ELSE LET o == child.script[n]
         IN  IF o.op \in {"write", "write_part"} /\ o.stream = s
             THEN Append(TextsUpTo(s, n - 1), LineText(n))
             ELSE TextsUpTo(s, n - 1)

\* The events a reader has sent so far: those collected and those in the
\* channel.
EventsSent(s) == SplitLines(Buffer(s)) \o EventLines(chan, s = "stdout")

\* C22 as stated: when run returns, the number of events sent for a stream
\* is the number of newline-terminated lines the child wrote to it.
C22_EventPerTerminatedLine ==
    pc = "returned" => \A s \in Streams : Len(EventsSent(s)) = Len(ChildLines(s))

\* C22 as amended: the events sent for a stream, then the line its reader
\* holds, then what is left in its pipe, are the texts the child wrote to
\* it, in order: one event per newline-terminated line and one for text
\* that ends the stream without a newline.  A reader that has ended was at
\* end-of-stream with nothing left to send and holds no Sender.
C22_EventPerLine ==
    \A s \in Streams :
        /\ EventsSent(s) \o Held(s) \o pipe[s] = TextsUpTo(s, child.idx - 1)
        /\ rpc[s] = "done" =>
              /\ s \notin senders
              /\ ~child.wopen[s]
              /\ EventsSent(s) = TextsUpTo(s, child.idx - 1)
        /\ s \in senders => rpc[s] \in {"read", "send"}
        /\ pc = "returned" => EventsSent(s) = TextsUpTo(s, Len(child.script))

\* The child wrote one line and then text without a newline to stdout, and
\* run returned both.
C22_Witness ==
    /\ pc = "returned"
    /\ child.script = <<Op("write", "stdout"), Op("write_part", "stdout")>>
    /\ result[1].stdout = LineText(1) \o <<NL>> \o LineText(2) \o <<NL>>
    /\ Len(ChildLines("stdout")) = 1

\* C23: when a run returns, both of its readers have ended with nothing
\* left to send, no Sender and no Receiver of its channel is left and the
\* channel and the pipes are empty; and in every run of a sequence the
\* returned stdout, and the stderr collected, are the lines of that run's
\* own child and the status is that child's.
C23_SessionPerRun ==
    pc = "returned" =>
        /\ \A s \in Streams : rpc[s] = "done" /\ Held(s) = <<>> /\ pipe[s] = <<>>
        /\ senders = {} /\ ~rxAlive /\ chan = <<>>
        /\ result # None
        /\ result[1].status = child.code
        /\ SplitLines(result[1].stdout) = ChildLines("stdout")
        /\ SplitLines(output_stderr) = ChildLines("stderr")

\* A later run of the program has returned the lines of its child.
C23_Witness ==
    /\ runs = 1 /\ pc = "returned"
    /\ Len(ChildLines("stdout")) = 1 /\ Len(ChildLines("stderr")) = 2
    /\ SplitLines(result[1].stdout) = ChildLines("stdout")

\* C24: in a squash with dry_run set, no command that changes the
\* repository or the remote is issued.
C24_DryRunChangesNothing ==
    (wf.command = "squash" /\ wf.dry_run) =>
        \A i \in 1..Len(wf.log) : wf.log[i].cmd \notin Changing

\* C25: in open_pr, whichever of the earlier git commands failed, git commit
\* is never issued while the default branch is checked out.
C25_CommitNotOnDefault ==
    wf.command = "open_pr" =>
        \A i \in 1..Len(wf.log) : wf.log[i].cmd = "commit" => wf.log[i].head # "main"

\* The length in bytes of a message of the characters "a" and "e_acute".
BytesOf(m) == Len(m) + Cardinality({i \in 1..Len(m) : m[i] = "e_acute"})

NameChar(c) ==
    IF c \in {"(", "/", ".", " "} THEN "-" ELSE IF c = "F" THEN "f" ELSE c

\* The positions of the message whose characters make up the name: those
\* not deleted, from the first to the last of them that is not whitespace.
NamePositions(m) ==
    LET kept == {i \in 1..Len(m) : m[i] \notin {"backtick", ":", ")", "dquote"}}
        solid == {i \in kept : m[i] \notin {" ", "tab", NL}}
    IN  {i \in kept : (\E j \in solid : j <= i) /\ (\E j \in solid : i <= j)}

\* C27: the name is lower-case, neither starts nor ends with whitespace and
\* holds no space, backtick, colon, double quote, parenthesis, slash or dot;
\* it is the message with ` : ) " deleted, then without the whitespace at
\* its two ends, with ( / . and every space turned into a hyphen, letters
\* in lower case and every other character, hyphens among them, as it was.
C27_BranchNameForm ==
    (fnArg.fn = "branch_name_from_commit_message" /\ fnRet # None) =>
        LET m == fnArg.message
            r == fnRet[1]
            K == NamePositions(m)
        IN  /\ \A i \in 1..Len(r) :
                  r[i] \notin {"F", " ", "backtick", ":", "dquote", "(", ")", "/", "."}
            /\ r # <<>> => (r[1] \notin {" ", "tab", NL} /\ r[Len(r)] \notin {" ", "tab", NL})
            /\ Len(r) = Cardinality(K)
            /\ \A i \in K : r[Cardinality({j \in K : j <= i})] = NameChar(m[i])

\* The message " F(" gives the name "f-".
C27_Witness ==
    /\ fnArg.fn = "branch_name_from_commit_message"
    /\ fnArg.message = <<" ", "F", "(">>
    /\ fnRet = Some(<<"f", "-">>)

\* The lines of a text: its longest stretches without a line end.
Stretches(t) ==
    {SubSeq(t, p[1], p[2]) : p \in
        {q \in (1..(Len(t) + 1)) \X (0..Len(t)) :
            /\ q[1] <= q[2] + 1
            /\ \A k \in q[1]..q[2] : t[k] # NL
            /\ (q[1] = 1 \/ t[q[1] - 1] = NL)
            /\ (q[2] = Len(t) \/ t[q[2] + 1] = NL)}}

\* The bracketed emails of an author string: what stands, blanks aside,
\* between its last "<" and a later ">" that is its last.
EmailsOf(a) ==
    {Trim(SubSeq(a, q[1] + 1, q[2] - 1)) : q \in
        {p \in (1..Len(a)) \X (1..Len(a)) :
            /\ p[1] < p[2]
            /\ a[p[1]] = "<" /\ a[p[2]] = ">"
            /\ \A k \in (p[1] + 1)..Len(a) : a[k] # "<"
            /\ \A k \in (p[2] + 1)..Len(a) : a[k] # ">"}}

\* An email is the user's when the two differ in the case of letters only.
IsUser(e, u) ==
    /\ Len(e) = Len(u)
    /\ \A i \in 1..Len(e) : e[i] = u[i] \/ {e[i], u[i]} = {"f", "F"}

\* The entries of a call: the lines of the log, or what follows the key in
\* the trailer lines of the messages, without the blanks around them.
EntriesOf(a) ==
    IF a.fn = "collect_authors_from_log"
    THEN {Trim(l) : l \in Stretches(a.authors_output)}
    ELSE {Trim(Tail(Trim(l))) :
             l \in {x \in Stretches(a.commit_messages) :
                       Trim(x) # <<>> /\ Head(Trim(x)) = "Co-authored-by:"}}

\* C28: the set holds no author whose email is the user's in any case and
\* no author twice; it holds what it held before and exactly the entries
\* that are not blank and have a bracketed email other than the user's.
C28_CoAuthorSet ==
    (fnArg.fn \in {"collect_authors_from_log", "parse_co_authors_from_messages"}
        /\ fnRet # None) =>
        LET r == fnRet[1]
            u == fnArg.current_user_email
            before == IF fnArg.fn = "parse_co_authors_from_messages"
                      THEN {fnArg.authors[i] : i \in 1..Len(fnArg.authors)} ELSE {}
            kept == {e \in EntriesOf(fnArg) :
                        e # <<>> /\ EmailsOf(e) # {} /\ \A m \in EmailsOf(e) : ~IsUser(m, u)}
        IN  /\ \A i, j \in 1..Len(r) : r[i] = r[j] => i = j
            /\ \A i \in 1..Len(r) : \A m \in EmailsOf(r[i]) : ~IsUser(m, u)
            /\ {r[i] : i \in 1..Len(r)} = before \cup kept

\* The set holds "o <o>"; the messages name "o <o>" again and the user, whose
\* email is "f", as "F <F>": the set is left as it was.
C28_Witness ==
    /\ fnArg.fn = "parse_co_authors_from_messages"
    /\ fnArg.current_user_email = <<"f">>
    /\ fnArg.authors = << <<"o", " ", "<", "o", ">">> >>
    /\ fnArg.commit_messages =
          <<"Co-authored-by:", " ", "o", " ", "<", "o", ">", NL,
            "Co-authored-by:", " ", "F", " ", "<", "F", ">">>
    /\ fnRet = Some(<< <<"o", " ", "<", "o", ">">> >>)

\* The text of lines that each end with a line end.
RECURSIVE Terminated(_)
Terminated(ls) ==
    IF ls = <<>> THEN <<>> ELSE Head(ls) \o <<NL>> \o Terminated(Tail(ls))

\* C29: the CmdOutput run returns is determined by the child alone: its
\* status is the child's exit code and its stdout the lines the child wrote
\* to stdout, each with its line end, whatever VERBOSE, hide_stdout and
\* hide_stderr are; so two runs whose children behave alike return the same
\* CmdOutput under any two settings of the three flags.
C29_OutputIgnoresFlags ==
    pc = "returned" =>
        result = Some([status |-> child.code,
                       stdout |-> Terminated(ChildLines("stdout"))])

\* A verbose run with both streams hidden returned for a child that wrote
\* to stdout and to stderr.
C29_Witness ==
    /\ pc = "returned"
    /\ VERBOSE /\ cmd.hide_stdout /\ cmd.hide_stderr
    /\ Len(ChildLines("stdout")) = 2
    /\ ChildLines("stderr") # <<>>

\* C30: a reader that is reading or about to send always finds the
\* receiver alive, so tx.send never returns an error and its unwrap never
\* panics; run holds the receiver from the launch of the readers to the end
\* of the loop of collect_output, and when the receiver is gone the channel
\* is empty and no sender is left.
C30_SendNeverFails ==
    /\ \A s \in Streams : rpc[s] \in {"read", "send"} => rxAlive
    /\ pc \in {"launch_stdout", "launch_stderr", "collect"} => rxAlive
    /\ (~rxAlive /\ pc \in {"wait", "returned"}) => (senders = {} /\ chan = <<>>)

\* The stderr reader is about to send its line after the stdout reader has
\* finished and dropped its sender; the receiver is still there.
C30_Witness ==
    /\ rpc["stdout"] = "done"
    /\ rpc["stderr"] = "send"
    /\ rxAlive
    /\ pc = "collect"
    /\ ChildLines("stdout") # <<>>

\* C31: in open_pr and in squash, whichever earlier commands failed, git
\* push is never issued while the default branch is checked out.
C31_NoPushOnDefault ==
    \A i \in 1..Len(wf.log) : wf.log[i].cmd = "push" => wf.log[i].head # "main"

\* The commands of open_pr that change the repository, the remote or the
\* pull requests.
OpenPrChanging == Changing \cup {"gh_pr_create"}

\* C32: an open_pr whose branch name exists already, locally or on the
\* remote, issues no checkout, pull, branch creation, add, commit, push or
\* PR creation.
C32_ExistingBranchStops ==
    (wf.command = "open_pr" /\ wf.exists # {}) =>
        \A i \in 1..Len(wf.log) : wf.log[i].cmd \notin OpenPrChanging

\* The commands that push or that view or create a pull request.
PushOrPr == {"push", "gh_pr_view", "gh_pr_web", "gh_pr_create"}

\* C33: when git commit has exited with a non-success status or has said
\* "nothing to commit", the workflow has returned an error and has issued
\* no push and no command that views or creates a pull request.
C33_FailedCommitStops ==
    wf.commit \in {"status", "nothing"} =>
        /\ wf.out = "err" /\ wf.pc = "done"
        /\ wf.log[Len(wf.log)].cmd = "commit"
        /\ \A i \in 1..Len(wf.log) : wf.log[i].cmd \notin PushOrPr

\* A squash ended with an error at a git commit that exited with success and
\* said "nothing to commit".
C33_Witness ==
    /\ wf.command = "squash"
    /\ wf.commit = "nothing"
    /\ wf.out = "err"
    /\ Issued("reset")

\* The PR title could not be obtained: squash ended with an error right
\* after gh pr list.
TitleFailed ==
    /\ wf.out = "err"
    /\ wf.log # <<>>
    /\ wf.log[Len(wf.log)].cmd = "gh_pr_list"

\* C34: a squash of a repository that is not clean, or whose PR title cannot
\* be obtained, or that was started on the default branch, issues no
\* checkout, pull, merge, reset, add, commit or push.
C34_SquashChecksFirst ==
    (wf.command = "squash" /\ (~wf.clean \/ TitleFailed \/ wf.original = "main")) =>
        \A i \in 1..Len(wf.log) : wf.log[i].cmd \notin Changing

====
